---- MODULE Spec2Model ----
(***************************************************************************)
(* A model of the PDF-to-ZPL converter of src/main.py: the ZPLGenerator    *)
(* command builders, PDFAnalyzer (page analysis, document-to-label         *)
(* mapping, occlusion test) and the request handlers that own the          *)
(* document handles.                                                       *)
(*                                                                         *)
(* Numbers.  Python floats are modelled as exact rationals [n, d] (d > 0,  *)
(* in lowest terms); int() is truncation toward zero, as in Python.        *)
(* Floating-point rounding error is not modelled.                          *)
(*                                                                         *)
(* Strings.  A Python str is a sequence of one-character strings, so that  *)
(* f-string formatting, str.upper, '\n'.join and str.split are computed    *)
(* character by character.                                                 *)
(***************************************************************************)
EXTENDS Integers, Sequences, FiniteSets, TLC

(***************************************************************************)
(* Rational arithmetic (Python float arithmetic, exact).                   *)
(***************************************************************************)
Abs(i) == IF i < 0 THEN -i ELSE i

RECURSIVE Gcd(_, _)
Gcd(a, b) == IF b = 0 THEN a ELSE Gcd(b, a % b)

\* the rational n/d (d /= 0) in lowest terms with a positive denominator
Rat(n, d) ==
    LET g == Gcd(Abs(n), Abs(d))
        s == IF d < 0 THEN -1 ELSE 1
    IN  [n |-> (s * n) \div g, d |-> (s * d) \div g]

R(i) == [n |-> i, d |-> 1]

RAdd(a, b) == Rat(a.n * b.d + b.n * a.d, a.d * b.d)
RSub(a, b) == Rat(a.n * b.d - b.n * a.d, a.d * b.d)
RMul(a, b) == Rat(a.n * b.n, a.d * b.d)
\* a / b; the callers guard b /= 0 (Python raises ZeroDivisionError there)
RDiv(a, b) == Rat(a.n * b.d, a.d * b.n)
RLe(a, b) == a.n * b.d <= b.n * a.d
RLt(a, b) == a.n * b.d < b.n * a.d
RMin(a, b) == IF RLe(a, b) THEN a ELSE b

\* Python int(float): truncation toward zero
PyInt(a) == IF a.n >= 0 THEN a.n \div a.d ELSE -((-a.n) \div a.d)

IMin(a, b) == IF a <= b THEN a ELSE b
IMax(a, b) == IF a >= b THEN a ELSE b

(***************************************************************************)
(* Strings as character sequences.                                         *)
(***************************************************************************)
Digit(k) == <<"0", "1", "2", "3", "4", "5", "6", "7", "8", "9">>[k + 1]

RECURSIVE NatToStr(_)
NatToStr(k) == IF k < 10 THEN <<Digit(k)>>
               ELSE NatToStr(k \div 10) \o <<Digit(k % 10)>>

\* f"{i}" for a Python int
IntToStr(i) == IF i < 0 THEN <<"-">> \o NatToStr(-i) ELSE NatToStr(i)

IsPrefix(p, s) == Len(p) <= Len(s) /\ SubSeq(s, 1, Len(p)) = p
IsSuffix(p, s) == Len(p) <= Len(s) /\ SubSeq(s, Len(s) - Len(p) + 1, Len(s)) = p


LowerCase == <<"a", "c", "d", "e", "n", "o", "q", "r", "t", "z">>
UpperCase == <<"A", "C", "D", "E", "N", "O", "Q", "R", "T", "Z">>

\* str.upper on one character: the letters the model uses, others unchanged
UpperChar(c) ==
    IF \E k \in 1..Len(LowerCase) : LowerCase[k] = c
    THEN UpperCase[CHOOSE k \in 1..Len(LowerCase) : LowerCase[k] = c]
    ELSE c

\* str.upper
Upper(s) == [k \in 1..Len(s) |-> UpperChar(s[k])]

RECURSIVE FindFrom(_, _, _)
FindFrom(s, p, i) ==
    IF i + Len(p) - 1 > Len(s) THEN 0
    ELSE IF SubSeq(s, i, i + Len(p) - 1) = p THEN i
    ELSE FindFrom(s, p, i + 1)

\* index of the first occurrence of p in s, 0 when there is none
FirstIndexOf(s, p) == FindFrom(s, p, 1)

\* p occurs in s as a contiguous substring
Contains(s, p) == FirstIndexOf(s, p) /= 0

RECURSIVE SplitFrom(_, _, _, _)
SplitFrom(s, sep, i, cur) ==
    IF i > Len(s) THEN <<cur>>
    ELSE IF s[i] = sep THEN <<cur>> \o SplitFrom(s, sep, i + 1, <<>>)
    ELSE SplitFrom(s, sep, i + 1, Append(cur, s[i]))

\* str.split(sep) for a one-character separator
Split(s, sep) == SplitFrom(s, sep, 1, <<>>)

\* sep.join(parts) for a one-character separator
RECURSIVE Join(_, _)
Join(parts, sep) ==
    IF parts = <<>> THEN <<>>
    ELSE IF Len(parts) = 1 THEN parts[1]
    ELSE parts[1] \o <<sep>> \o Join(Tail(parts), sep)

(***************************************************************************)
(* class ZPLGenerator                                                      *)
(***************************************************************************)
POINTS_PER_INCH == 72
MIN_FONT_HEIGHT == 9
MAX_FONT_HEIGHT == 120
MAX_LINEAR_HEIGHT == 400
QR_WIDTH_PER_MAGNIFICATION == 100
MIN_MAGNIFICATION == 1
MAX_MAGNIFICATION == 10

\* int((value_inches / 72.0) * dpi)
convert_to_zpl_units(value_inches, dpi) ==
    PyInt(RMul(RDiv(value_inches, R(POINTS_PER_INCH)), R(dpi)))

\* font_height_of with the lower clamp left out: min(int(font_size * 1.2), 120)
font_height_of_no_floor(font_size) ==
    IMin(PyInt(RMul(font_size, Rat(12, 10))), MAX_FONT_HEIGHT)

\* font_height = min(max(int(font_size * 1.2), 9), 120)
font_height_of(font_size) ==
    IMin(IMax(PyInt(RMul(font_size, Rat(12, 10))), MIN_FONT_HEIGHT), MAX_FONT_HEIGHT)

\* font_width = int(font_height * 0.8)
font_width_of(font_height) == PyInt(RMul(R(font_height), Rat(8, 10)))

\* the payload as generate_text and generate_barcode embed it in the f-string:
\* {text} and {data} are interpolated as they are
embed_payload(payload) == payload

\* f"^FO{x_dots},{y_dots}^A0,{font_height},{font_width}^FD{text}^FS"
generate_text(text, x, y, font_size, dpi) ==
    LET x_dots == convert_to_zpl_units(x, dpi)
        y_dots == convert_to_zpl_units(y, dpi)
        font_height == font_height_of(font_size)
        font_width == font_width_of(font_height)
    IN  <<"^", "F", "O">> \o IntToStr(x_dots) \o <<",">> \o IntToStr(y_dots)
        \o <<"^", "A", "0", ",">> \o IntToStr(font_height) \o <<",">>
        \o IntToStr(font_width) \o <<"^", "F", "D">> \o embed_payload(text)
        \o <<"^", "F", "S">>

T_CODE128 == <<"C", "O", "D", "E", "1", "2", "8">>
T_CODE39 == <<"C", "O", "D", "E", "3", "9">>
T_QR_CODE == <<"Q", "R", "_", "C", "O", "D", "E">>
T_EAN13 == <<"E", "A", "N", "1", "3">>
T_EAN8 == <<"E", "A", "N", "8">>

\* the keys of zpl_barcode_map
zpl_barcode_keys == {T_CODE128, T_CODE39, T_QR_CODE, T_EAN13, T_EAN8}

\* zpl_barcode_map.get with the first linear entry after CODE128 as default
zpl_barcode_map_get_code39_default(key) ==
    CASE key = T_CODE128 -> [cmd |-> <<"^", "B", "C">>, module_width |-> 2]
      [] key = T_QR_CODE -> [cmd |-> <<"^", "B", "Q">>, module_width |-> 2]
      [] key = T_EAN13 -> [cmd |-> <<"^", "B", "E">>, module_width |-> 3]
      [] key = T_EAN8 -> [cmd |-> <<"^", "B", "8">>, module_width |-> 3]
      [] OTHER -> [cmd |-> <<"^", "B", "3">>, module_width |-> 2]

\* zpl_barcode_map.get(key, ('^BC', 2))
zpl_barcode_map_get(key) ==
    CASE key = T_CODE128 -> [cmd |-> <<"^", "B", "C">>, module_width |-> 2]
      [] key = T_CODE39 -> [cmd |-> <<"^", "B", "3">>, module_width |-> 2]
      [] key = T_QR_CODE -> [cmd |-> <<"^", "B", "Q">>, module_width |-> 2]
      [] key = T_EAN13 -> [cmd |-> <<"^", "B", "E">>, module_width |-> 3]
      [] key = T_EAN8 -> [cmd |-> <<"^", "B", "8">>, module_width |-> 3]
      [] OTHER -> [cmd |-> <<"^", "B", "C">>, module_width |-> 2]

\* qr_magnification with the lower clamp left out: min(10, int(width_dots / 100))
qr_magnification_no_floor(width_dots) ==
    IMin(MAX_MAGNIFICATION, PyInt(Rat(width_dots, QR_WIDTH_PER_MAGNIFICATION)))

\* magnification = max(1, min(10, int(width_dots / 100)))
qr_magnification(width_dots) ==
    IMax(MIN_MAGNIFICATION,
         IMin(MAX_MAGNIFICATION,
              PyInt(Rat(width_dots, QR_WIDTH_PER_MAGNIFICATION))))

\* linear_height with the ceiling left out: height = height_dots
linear_height_unclamped(height_dots) == height_dots

\* height = min(height_dots, 400)
linear_height(height_dots) == IMin(height_dots, MAX_LINEAR_HEIGHT)

\* the four conversions generate_barcode starts with: x_dots, y_dots,
\* width_dots, height_dots
barcode_dots(x, y, width, height, dpi) ==
    [x_dots |-> convert_to_zpl_units(x, dpi),
     y_dots |-> convert_to_zpl_units(y, dpi),
     width_dots |-> convert_to_zpl_units(width, dpi),
     height_dots |-> convert_to_zpl_units(height, dpi)]

generate_barcode(barcode_type, data, x, y, width, height, dpi) ==
    LET d == barcode_dots(x, y, width, height, dpi)
        entry == zpl_barcode_map_get(Upper(barcode_type))
        origin == <<"^", "F", "O">> \o IntToStr(d.x_dots) \o <<",">>
                  \o IntToStr(d.y_dots)
    IN  IF Upper(barcode_type) = T_QR_CODE
        THEN origin \o entry.cmd \o <<",">>
             \o IntToStr(qr_magnification(d.width_dots))
             \o <<",", "M", "^", "F", "D">> \o embed_payload(data) \o <<"^", "F", "S">>
        ELSE origin \o entry.cmd \o <<",">> \o IntToStr(linear_height(d.height_dots))
             \o <<",">> \o IntToStr(entry.module_width)
             \o <<",", "Y", ",", "N", "^", "F", "D">> \o embed_payload(data)
             \o <<"^", "F", "S">>

(***************************************************************************)
(* class PDFAnalyzer: barcode position, occlusion test, element mapping.   *)
(***************************************************************************)
None == [none |-> TRUE]
NEWLINE == "\n"

\* _calculate_barcode_position(barcode, image_pos, image_size), rect being
\* barcode.rect; a division by zero is caught and gives None
calculate_barcode_position(rect, image_pos, image_size) ==
    IF image_size[1] = 0 \/ image_size[2] = 0 THEN None
    ELSE LET scale_x == RDiv(RSub(image_pos.x1, image_pos.x0), R(image_size[1]))
             scale_y == RDiv(RSub(image_pos.y1, image_pos.y0), R(image_size[2]))
         IN  [x0 |-> RAdd(image_pos.x0, RMul(R(rect.left), scale_x)),
              y0 |-> RAdd(image_pos.y0, RMul(R(rect.top), scale_y)),
              x1 |-> RAdd(image_pos.x0, RMul(R(rect.left + rect.width), scale_x)),
              y1 |-> RAdd(image_pos.y0, RMul(R(rect.top + rect.height), scale_y))]

\* _is_point_in_barcode with strict comparisons
is_point_in_barcode_strict(point, barcodes) ==
    \E k \in 1..Len(barcodes) :
        LET pos == barcodes[k].position
        IN  /\ pos /= None
            /\ RLt(pos.x0, point[1]) /\ RLt(point[1], pos.x1)
            /\ RLt(pos.y0, point[2]) /\ RLt(point[2], pos.y1)

\* _is_point_in_barcode(point, barcodes): x0 <= x <= x1 and y0 <= y <= y1 for
\* some barcode that has a position
is_point_in_barcode(point, barcodes) ==
    \E k \in 1..Len(barcodes) :
        LET pos == barcodes[k].position
        IN  /\ pos /= None
            /\ RLe(pos.x0, point[1]) /\ RLe(point[1], pos.x1)
            /\ RLe(pos.y0, point[2]) /\ RLe(point[2], pos.y1)

\* scale_x = width / float(page.width), scale_y = height / float(page.height)
scale_factors(page, width, height) ==
    [x |-> RDiv(width, page.width), y |-> RDiv(height, page.height)]

\* block['bbox'][0] * scale_x * 72 with the axis mirrored on the page
to_points_mirrored(v, scale) == RMul(RMul(RSub(R(0), v), scale), R(POINTS_PER_INCH))

\* block['bbox'][0] * scale_x * 72, pos['x0'] * scale_x * 72, ...
to_points(v, scale) == RMul(RMul(v, scale), R(POINTS_PER_INCH))

\* the body of the text-block loop: the commands one block adds
text_block_elements(block, barcodes, scale, dpi) ==
    LET x == to_points(block.bbox[1], scale.x)
        y == to_points(block.bbox[2], scale.y)
    IN  IF ~is_point_in_barcode(<<x, y>>, barcodes)
        THEN <<generate_text(block.text, x, y,
                             RMul(block.size, RMin(scale.x, scale.y)), dpi)>>
        ELSE <<>>

\* the arguments the barcode loop hands to generate_barcode
barcode_call(barcode, scale) ==
    LET pos == barcode.position
    IN  [x |-> to_points(pos.x0, scale.x),
         y |-> to_points(pos.y0, scale.y),
         width |-> to_points(RSub(pos.x1, pos.x0), scale.x),
         height |-> to_points(RSub(pos.y1, pos.y0), scale.y)]

\* the body of the barcode loop: the command one barcode adds
barcode_element(barcode, scale, dpi) ==
    LET c == barcode_call(barcode, scale)
    IN  generate_barcode(barcode.type, barcode.data, c.x, c.y, c.width, c.height, dpi)

RECURSIVE text_elements(_, _, _, _)
text_elements(blocks, barcodes, scale, dpi) ==
    IF blocks = <<>> THEN <<>>
    ELSE text_block_elements(blocks[1], barcodes, scale, dpi)
         \o text_elements(Tail(blocks), barcodes, scale, dpi)

\* the images that have a position
RECURSIVE positioned(_)
positioned(images) ==
    IF images = <<>> THEN <<>>
    ELSE (IF images[1].position /= None THEN <<images[1]>> ELSE <<>>)
         \o positioned(Tail(images))

\* generate_zpl_elements on a page whose analysis is given and whose size is
\* not zero: ('\n'.join(zpl_elements), embedded_images)
generate_zpl_elements(analysis, page, dpi, width, height) ==
    LET scale == scale_factors(page, width, height)
        zpl_elements ==
            text_elements(analysis.text_blocks, analysis.barcodes, scale, dpi)
            \o [k \in 1..Len(analysis.barcodes) |->
                    barcode_element(analysis.barcodes[k], scale, dpi)]
    IN  [zpl |-> Join(zpl_elements, NEWLINE),
         embedded_images |-> positioned(analysis.images)]

(***************************************************************************)
(* PDFAnalyzer.analyze_page.  A document is what the two readers make of   *)
(* the uploaded bytes: whether pdfplumber and fitz can open it, and its    *)
(* pages; a page has a size, the words extract_words yields and the images *)
(* get_images yields.  A word's kind tells how its dict is malformed; an   *)
(* image tells whether extract_image/Image.open work, what pyzbar.decode   *)
(* does and what _get_image_position finds.                                *)
(***************************************************************************)
NoException == "none"

\* pages[page_num] of a Python list: the index it reads, 0 for IndexError
list_index(n, page_num) ==
    IF 0 <= page_num /\ page_num < n THEN page_num + 1
    ELSE IF -n <= page_num /\ page_num < 0 THEN n + page_num + 1
    ELSE 0

\* the text-block loop body: one word appended, or an error recorded; a
\* null coordinate (TypeError) is not caught here and ends the page
RECURSIVE analyze_words(_, _)
analyze_words(words, acc) ==
    IF words = <<>> THEN acc
    ELSE LET w == Head(words)
         IN  CASE w.kind = "ok" ->
                    analyze_words(Tail(words),
                        [acc EXCEPT
                            !.text_blocks = Append(@,
                                [text |-> w.text, bbox |-> w.bbox,
                                 font |-> IF w.fontname = "" THEN "default"
                                          ELSE w.fontname,
                                 size |-> w.size]),
                            !.fonts = IF w.fontname = "" THEN @
                                      ELSE @ \cup {w.fontname}])
               [] w.kind \in {"missing_key", "non_numeric"} ->
                    analyze_words(Tail(words),
                        [acc EXCEPT
                            !.errors = Append(@, "Error processing text block")])
               [] OTHER -> [acc EXCEPT !.exc = "TypeError"]

\* the symbols of one image appended as barcodes, where a position results
RECURSIVE symbol_barcodes(_, _, _)
symbol_barcodes(symbols, position, size) ==
    IF symbols = <<>> THEN <<>>
    ELSE LET doc_rect == calculate_barcode_position(Head(symbols).rect, position, size)
         IN  (IF doc_rect /= None
              THEN <<[type |-> Head(symbols).type, data |-> Head(symbols).data,
                      position |-> doc_rect]>>
              ELSE <<>>)
             \o symbol_barcodes(Tail(symbols), position, size)

\* the image loop: extract_image or Image.open failing is not caught in the
\* loop and ends the page; pyzbar.decode throwing is caught and recorded
RECURSIVE analyze_images(_, _, _)
analyze_images(images, img_index, acc) ==
    IF images = <<>> THEN acc
    ELSE LET img == Head(images)
         IN  CASE img.extract /= "ok" -> [acc EXCEPT !.exc = "ImageError"]
               [] img.decode = "throws" ->
                    analyze_images(Tail(images), img_index + 1,
                        [acc EXCEPT
                            !.errors = Append(@, "Error processing barcode")])
               [] img.symbols /= <<>> /\ img.position /= None ->
                    analyze_images(Tail(images), img_index + 1,
                        [acc EXCEPT
                            !.barcodes = @ \o symbol_barcodes(img.symbols,
                                                              img.position, img.size)])
               [] img.symbols = <<>> /\ img.position /= None ->
                    analyze_images(Tail(images), img_index + 1,
                        [acc EXCEPT
                            !.images = Append(@,
                                [index |-> img_index, size |-> img.size,
                                 format |-> img.format, position |-> img.position])])
               [] OTHER -> analyze_images(Tail(images), img_index + 1, acc)

empty_analysis ==
    [text_blocks |-> <<>>, images |-> <<>>, barcodes |-> <<>>, fonts |-> {},
     errors |-> <<>>, exc |-> NoException]

\* what the outer except of analyze_page leaves: the exception recorded as
\* one more error, and the result returned
page_result(acc) ==
    [text_blocks |-> acc.text_blocks, images |-> acc.images,
     barcodes |-> acc.barcodes, fonts |-> acc.fonts,
     errors |-> IF acc.exc = NoException THEN acc.errors
                ELSE Append(acc.errors, "Error analyzing page")]

\* analyze_page(page_num): it returns a result on every path
analyze_page(doc, page_num) ==
    LET k == list_index(Len(doc.pages), page_num)
    IN  IF k = 0 THEN page_result([empty_analysis EXCEPT !.exc = "IndexError"])
        ELSE LET texts == analyze_words(doc.pages[k].words, empty_analysis)
             IN  IF texts.exc /= NoException THEN page_result(texts)
                 ELSE page_result(analyze_images(doc.pages[k].images, 0, texts))

\* the exception generate_zpl_elements ends with before any element is
\* mapped: pages[0] of an empty document, width or height None, a page of
\* width or height zero
generate_zpl_elements_exc(doc, geometry) ==
    IF Len(doc.pages) = 0 THEN "IndexError"
    ELSE IF ~geometry.given THEN "TypeError"
    ELSE IF doc.pages[1].width.n = 0 \/ doc.pages[1].height.n = 0
    THEN "ZeroDivisionError"
    ELSE NoException

(***************************************************************************)
(* State.  op, args, out: the function or endpoint called, its arguments   *)
(* and what it returned.  For a request: pc is the handler's position,     *)
(* handles the state of each document handle the request may open, frame   *)
(* the handler's local variables.                                          *)
(***************************************************************************)
VARIABLES op, args, out, pc, handles, frame, clock, temp_dir, sweeps, unlinked

vars == <<op, args, out, pc, handles, frame, clock, temp_dir, sweeps, unlinked>>

\* the temp directory side: the wall clock in seconds, the files of TEMP_DIR
\* (name to ctime and whether unlink is permitted), each running
\* cleanup_old_files, and the record of every unlink that succeeded
dir_vars == <<clock, temp_dir, sweeps, unlinked>>

request_vars == <<op, args, out, pc, handles, frame>>

HandleNames == {"pdfplumber", "fitz", "helper_doc", "helper_new_doc"}

no_handles == [h \in HandleNames |-> "none"]

\* no request in progress
Idle == pc = "idle" /\ handles = no_handles /\ frame = <<>>

\* the workers that each run one cleanup_old_files
Sweepers == {"worker_1", "worker_2"}

\* a cleanup_old_files that has not been called
not_called ==
    [pc |-> "idle", current_time |-> 0, listing |-> <<>>, raised |-> FALSE,
     swallowed |-> 0, old_at_start |-> {}]

\* no sweep called
NoSweep == sweeps = [s \in Sweepers |-> not_called] /\ unlinked = {}

(***************************************************************************)
(* Inputs of the generator calls.                                          *)
(***************************************************************************)
MaxTextLen == 2
MaxFontHalves == 16
MaxWidthHundreds == 11

RECURSIVE SeqsUpTo(_, _)
SeqsUpTo(S, k) ==
    IF k = 0 THEN {<<>>}
    ELSE LET shorter == SeqsUpTo(S, k - 1)
         IN  shorter \cup {Append(t, c) : t \in shorter, c \in S}

PayloadAlphabet == {"a", "^", "~", "\\", ",", ":", "\"", "&"}

EntitySamples ==
    {<<"&", "a", "m", "p", ";">>, <<"&", "l", "t", ";", "^">>,
     <<"a", "&", "g", "t", ";">>}

Payloads == SeqsUpTo(PayloadAlphabet, MaxTextLen) \cup EntitySamples

Dpis == {72, 203}

Origins == {<<R(0), R(0)>>, <<Rat(-3, 2), Rat(201, 2)>>}

FontSizes ==
    {Rat(k, 2) : k \in (-MaxFontHalves)..MaxFontHalves}
        \cup {R(50), R(100), R(101), R(1000000)}

UnknownTypes ==
    {<<"A", "Z", "T", "E", "C">>, <<"a", "z", "t", "e", "c">>,
     <<"A", "z", "t", "e", "c">>, <<"Q", "R">>, <<"q", "r">>,
     <<"D", "A", "T", "A", "M", "A", "T", "R", "I", "X">>, <<>>}

KnownTypes ==
    zpl_barcode_keys \cup
        {<<"c", "o", "d", "e", "1", "2", "8">>, <<"C", "o", "d", "e", "3", "9">>,
         <<"q", "r", "_", "c", "o", "d", "e">>, <<"Q", "r", "_", "C", "o", "d", "e">>,
         <<"e", "a", "n", "1", "3">>, <<"e", "a", "n", "8">>}

BarcodeTypes == KnownTypes \cup UnknownTypes

BarcodeData == {<<"a">>, <<"1", "^", "2">>}

Widths ==
    {R(100 * k + off) : k \in (-1)..MaxWidthHundreds, off \in {0, 50, 99}}
        \cup {Rat(1, 2), R(1000000)}

Heights == {R(-10), R(0), Rat(799, 2), R(400), R(401), R(500)}

(***************************************************************************)
(* One call of generate_text or generate_barcode.                          *)
(***************************************************************************)
InitCall ==
    /\ op = "none" /\ args = <<>> /\ out = <<>> /\ Idle
    /\ clock = 0 /\ temp_dir = {} /\ NoSweep

GenerateText ==
    /\ op = "none"
    /\ \E text \in Payloads, o \in Origins, font_size \in FontSizes, dpi \in Dpis :
        /\ op' = "generate_text"
        /\ args' = [text |-> text, x |-> o[1], y |-> o[2],
                    font_size |-> font_size, dpi |-> dpi]
        /\ out' = generate_text(text, o[1], o[2], font_size, dpi)
        /\ UNCHANGED <<pc, handles, frame, dir_vars>>

GenerateBarcode ==
    /\ op = "none"
    /\ \E barcode_type \in BarcodeTypes, data \in BarcodeData,
          width \in Widths, height \in Heights, dpi \in Dpis :
        /\ op' = "generate_barcode"
        /\ args' = [barcode_type |-> barcode_type, data |-> data,
                    x |-> R(36), y |-> Rat(-3, 2),
                    width |-> width, height |-> height, dpi |-> dpi]
        /\ out' = generate_barcode(barcode_type, data, R(36), Rat(-3, 2),
                                   width, height, dpi)
        /\ UNCHANGED <<pc, handles, frame, dir_vars>>

NextGen == GenerateText \/ GenerateBarcode

SpecGen == InitCall /\ [][NextGen]_vars

(***************************************************************************)
(* Reading a command back, as the printer does: the header up to the first *)
(* ^FD, its comma-separated parameters, and the field data between that    *)
(* ^FD and the closing ^FS.                                                *)
(***************************************************************************)
FD == <<"^", "F", "D">>
FS == <<"^", "F", "S">>

HeaderOf(cmd) == SubSeq(cmd, 1, FirstIndexOf(cmd, FD) - 1)
FieldDataOf(cmd) == SubSeq(cmd, FirstIndexOf(cmd, FD) + Len(FD), Len(cmd) - Len(FS))
HeaderFields(cmd) == Split(HeaderOf(cmd), ",")

IsDigit(c) == \E k \in 0..9 : Digit(k) = c
DigitVal(c) == CHOOSE k \in 0..9 : Digit(k) = c

IsIntStr(s) ==
    LET body == IF s /= <<>> /\ s[1] = "-" THEN Tail(s) ELSE s
    IN  body /= <<>> /\ \A k \in 1..Len(body) : IsDigit(body[k])

RECURSIVE StrToNat(_)
StrToNat(s) ==
    IF s = <<>> THEN 0
    ELSE 10 * StrToNat(SubSeq(s, 1, Len(s) - 1)) + DigitVal(s[Len(s)])

StrToInt(s) == IF s[1] = "-" THEN -StrToNat(Tail(s)) ELSE StrToNat(s)

\* the rule of spec 4.3: HTML entities decoded, then \ ^ ~ , : " each prefixed
\* by a backslash, the backslash first
RECURSIVE ReplaceChar(_, _, _)
ReplaceChar(s, c, rep) ==
    IF s = <<>> THEN <<>>
    ELSE (IF s[1] = c THEN rep ELSE <<s[1]>>) \o ReplaceChar(Tail(s), c, rep)

RECURSIVE EscapeEach(_, _)
EscapeEach(s, cs) ==
    IF cs = <<>> THEN s
    ELSE EscapeEach(ReplaceChar(s, cs[1], <<"\\", cs[1]>>), Tail(cs))

ZplEscaped(s) == EscapeEach(s, <<"\\", "^", "~", ",", ":", "\"">>)

Entities ==
    {[name |-> <<"&", "a", "m", "p", ";">>, char |-> "&"],
     [name |-> <<"&", "l", "t", ";">>, char |-> "<"],
     [name |-> <<"&", "g", "t", ";">>, char |-> ">"],
     [name |-> <<"&", "q", "u", "o", "t", ";">>, char |-> "\""]}

RECURSIVE HtmlDecoded(_)
HtmlDecoded(s) ==
    IF s = <<>> THEN <<>>
    ELSE IF \E e \in Entities : IsPrefix(e.name, s)
    THEN LET e == CHOOSE e \in Entities : IsPrefix(e.name, s)
         IN  <<e.char>> \o HtmlDecoded(SubSeq(s, Len(e.name) + 1, Len(s)))
    ELSE <<s[1]>> \o HtmlDecoded(Tail(s))

PayloadOfCall ==
    IF op = "generate_text" THEN args.text ELSE args.data

(* C4: the field data of every text and barcode command is the payload     *)
(* with HTML entities decoded and then \ ^ ~ , : " backslash-escaped.      *)
C4_FieldDataEscaped ==
    op \in {"generate_text", "generate_barcode"} =>
        FieldDataOf(out) = ZplEscaped(HtmlDecoded(PayloadOfCall))

(* C6: whatever font_size generate_text is given, the font height it       *)
(* writes after ^A0 is an integer from 9 to 120.                           *)
C6_FontHeightInRange ==
    op = "generate_text" =>
        LET f == HeaderFields(out)
        IN  /\ Len(f) = 4
            /\ IsSuffix(<<"^", "A", "0">>, f[2])
            /\ IsIntStr(f[3])
            /\ StrToInt(f[3]) \in 9..120

C6_Witness ==
    /\ op = "generate_text"
    /\ args.font_size = R(1000000)
    /\ HeaderFields(out)[3] = <<"1", "2", "0">>

IsQrCommand(cmd) ==
    Len(HeaderFields(cmd)) >= 2 /\ IsSuffix(<<"^", "B", "Q">>, HeaderFields(cmd)[2])

(* C7: whatever width and dpi generate_barcode is given, the magnification *)
(* it writes in a QR command is an integer from 1 to 10.                    *)
C7_MagnificationInRange ==
    (op = "generate_barcode" /\ IsQrCommand(out)) =>
        LET f == HeaderFields(out)
        IN  /\ Len(f) = 4
            /\ IsIntStr(f[3])
            /\ StrToInt(f[3]) \in 1..10
            /\ f[4] = <<"M">>

C7_Witness ==
    /\ op = "generate_barcode"
    /\ IsQrCommand(out)
    /\ args.width = R(-100)
    /\ HeaderFields(out)[3] = <<"1">>

(* C8: for a type string that is not in the symbology table, in any letter *)
(* case, generate_barcode emits the CODE128 template: ^BC, a height,       *)
(* module width 2 and the Y,N parameters of a linear symbol.               *)
C8_UnknownTypeIsCode128 ==
    (op = "generate_barcode" /\ args.barcode_type \in UnknownTypes) =>
        LET f == HeaderFields(out)
        IN  /\ Len(f) = 6
            /\ IsPrefix(<<"^", "F", "O">>, f[1])
            /\ IsSuffix(<<"^", "B", "C">>, f[2])
            /\ IsIntStr(f[3])
            /\ f[4] = <<"2">>
            /\ f[5] = <<"Y">>
            /\ f[6] = <<"N">>
            /\ IsSuffix(FS, out)

C8_Witness ==
    /\ op = "generate_barcode"
    /\ args.barcode_type = <<"a", "z", "t", "e", "c">>
    /\ IsSuffix(<<"^", "B", "C">>, HeaderFields(out)[2])

(***************************************************************************)
(* One call of generate_zpl_elements: on a page of text blocks (and at     *)
(* most one barcode), or on a page with one symbol decoded from one image. *)
(***************************************************************************)
MaxCoordHalves == 4
MaxPixels == 3

\* page size in points, label size in inches, dpi
Geometries ==
    {[page |-> [width |-> R(72), height |-> R(72)],
      width |-> R(1), height |-> R(1), dpi |-> 72],
     [page |-> [width |-> R(612), height |-> R(792)],
      width |-> R(4), height |-> R(6), dpi |-> 203],
     [page |-> [width |-> R(144), height |-> R(72)],
      width |-> Rat(1, 2), height |-> R(2), dpi |-> 203],
     [page |-> [width |-> R(100), height |-> R(200)],
      width |-> R(3), height |-> R(1), dpi |-> 300]}

BlockXs == {Rat(k, 2) : k \in (-MaxCoordHalves)..MaxCoordHalves} \cup {R(100)}
BlockYs == {R(0), Rat(3, 2)}

TextBlock(text, x0, top) ==
    [text |-> text, bbox |-> <<x0, top, RAdd(x0, R(30)), RAdd(top, R(12))>>,
     font |-> "Helvetica", size |-> R(12)]

\* one or two text blocks in extraction order, with different texts, of
\* size 12; one block of size 100
BlockSeqs ==
    {<<TextBlock(<<"a">>, x, y)>> : x \in BlockXs, y \in BlockYs}
        \cup {<<[TextBlock(<<"a">>, R(10), R(20)) EXCEPT !.size = R(100)]>>}
        \cup {<<TextBlock(<<"a">>, x1, y1), TextBlock(<<"b">>, x2, y2)>> :
                x1 \in BlockXs, y1 \in BlockYs, x2 \in BlockXs, y2 \in BlockYs}

Bbox(x0, y0, x1, y1) == [x0 |-> x0, y0 |-> y0, x1 |-> x1, y1 |-> y1]

BarcodeLists ==
    {<<>>,
     <<[type |-> T_CODE128, data |-> <<"1">>,
        position |-> Bbox(R(1), R(0), R(2), Rat(3, 2))]>>,
     <<[type |-> T_QR_CODE, data |-> <<"1">>,
        position |-> Bbox(Rat(-1, 2), R(3), R(0), R(100))]>>}

ImagePositions ==
    {Bbox(R(0), R(0), R(2), R(2)),
     Bbox(Rat(9, 10), R(0), Rat(28, 10), R(100)),
     Bbox(R(300), Rat(1, 3), R(400), Rat(7, 3)),
     Bbox(Rat(1, 2), Rat(9, 10), Rat(5, 2), Rat(28, 10)),
     Bbox(R(10), R(20), Rat(119, 10), R(21)),
     Bbox(Rat(-3, 2), R(0), Rat(1, 2), R(2)),
     Bbox(R(0), Rat(-1, 3), R(100), Rat(5, 3)),
     Bbox(R(-2), R(-2), R(-1), R(-1))}

ImageSizes == (1..MaxPixels) \X (1..MaxPixels)

\* the rectangles of whole pixels inside an image of the given size
RectsIn(size) ==
    {r \in [left : 0..(size[1] - 1), top : 0..(size[2] - 1),
            width : 1..size[1], height : 1..size[2]] :
        r.left + r.width <= size[1] /\ r.top + r.height <= size[2]}

MapTextBlocks ==
    /\ op = "none"
    /\ \E blocks \in BlockSeqs, barcodes \in BarcodeLists, g \in Geometries :
        LET analysis == [text_blocks |-> blocks, images |-> <<>>,
                         barcodes |-> barcodes]
        IN  /\ op' = "map_text"
            /\ args' = [analysis |-> analysis, page |-> g.page, dpi |-> g.dpi,
                        width |-> g.width, height |-> g.height]
            /\ out' = generate_zpl_elements(analysis, g.page, g.dpi, g.width, g.height)
            /\ UNCHANGED <<pc, handles, frame, dir_vars>>

MapBarcode ==
    /\ op = "none"
    /\ \E image_pos \in ImagePositions, image_size \in ImageSizes,
          barcode_type \in {T_CODE128, T_QR_CODE}, g \in Geometries :
        \E rect \in RectsIn(image_size) :
            LET doc_rect == calculate_barcode_position(rect, image_pos, image_size)
                barcode == [type |-> barcode_type, data |-> <<"1">>,
                            position |-> doc_rect]
                analysis == [text_blocks |-> <<>>, images |-> <<>>,
                             barcodes |-> <<barcode>>]
                c == barcode_call(barcode, scale_factors(g.page, g.width, g.height))
            IN  /\ op' = "map_barcode"
                /\ args' = [analysis |-> analysis, page |-> g.page, dpi |-> g.dpi,
                            width |-> g.width, height |-> g.height,
                            image_pos |-> image_pos, image_size |-> image_size,
                            rect |-> rect]
                /\ out' = [call |-> generate_zpl_elements(analysis, g.page, g.dpi,
                                                          g.width, g.height),
                           dots |-> barcode_dots(c.x, c.y, c.width, c.height, g.dpi)]
                /\ UNCHANGED <<pc, handles, frame, dir_vars>>

NextElements == MapTextBlocks \/ MapBarcode

SpecElements == InitCall /\ [][NextElements]_vars

(***************************************************************************)
(* Reading the result of generate_zpl_elements back.                       *)
(***************************************************************************)
LinesOf(zpl) == Split(zpl, NEWLINE)

IsTextCommand(line) ==
    /\ Contains(line, FD)
    /\ Len(HeaderFields(line)) = 4
    /\ IsSuffix(<<"^", "A", "0">>, HeaderFields(line)[2])

\* ^FO<x>,<y>: the origin a command is placed at
XDotsOf(line) ==
    LET f == HeaderFields(line) IN StrToInt(SubSeq(f[1], 4, Len(f[1])))
YDotsOf(line) ==
    LET f == HeaderFields(line) IN StrToInt(SubSeq(f[2], 1, Len(f[2]) - 3))

\* one line of the result read back: whether it is a text command, its field
\* data and its origin in dots
ReadLine(line) ==
    IF IsTextCommand(line)
    THEN [text |-> TRUE, data |-> FieldDataOf(line),
          x |-> XDotsOf(line), y |-> YDotsOf(line)]
    ELSE [text |-> FALSE, data |-> <<>>, x |-> 0, y |-> 0]

ReadLines(zpl) == [k \in 1..Len(LinesOf(zpl)) |-> ReadLine(LinesOf(zpl)[k])]

\* the text commands among the read lines that carry the given text
TextLinesOf(read, text) ==
    {k \in 1..Len(read) : read[k].text /\ read[k].data = text}

\* the point generate_zpl_elements tests for a block: its origin scaled to
\* the label, in points
TestedPoint(block) ==
    <<RMul(RMul(block.bbox[1], RDiv(args.width, args.page.width)), R(72)),
      RMul(RMul(block.bbox[2], RDiv(args.height, args.page.height)), R(72))>>

OnOrInside(pt, pos) ==
    /\ RLe(pos.x0, pt[1]) /\ RLe(pt[1], pos.x1)
    /\ RLe(pos.y0, pt[2]) /\ RLe(pt[2], pos.y1)

OnEdge(pt, pos) ==
    OnOrInside(pt, pos) /\ (pt[1] \in {pos.x0, pos.x1} \/ pt[2] \in {pos.y0, pos.y1})

Occluded(block, barcodes) ==
    \E b \in 1..Len(barcodes) : OnOrInside(TestedPoint(block), barcodes[b].position)

OccludedDropped(read, blocks, barcodes) ==
    \A k \in 1..Len(blocks) :
        Occluded(blocks[k], barcodes) => TextLinesOf(read, blocks[k].text) = {}

(* C5: a text block whose tested origin lies inside or exactly on an edge  *)
(* or corner of some barcode's bbox gets no text command.                  *)
C5_InclusiveOcclusion ==
    op = "map_text" =>
        OccludedDropped(ReadLines(out.zpl), args.analysis.text_blocks,
                        args.analysis.barcodes)

EdgeBlockDropped(read, blocks, barcodes) ==
    \E k \in 1..Len(blocks), b \in 1..Len(barcodes) :
        /\ OnEdge(TestedPoint(blocks[k]), barcodes[b].position)
        /\ TextLinesOf(read, blocks[k].text) = {}

C5_Witness ==
    /\ op = "map_text"
    /\ EdgeBlockDropped(ReadLines(out.zpl), args.analysis.text_blocks,
                        args.analysis.barcodes)

MonotonicPlacement(read, blocks) ==
    \A i, j \in 1..Len(blocks) :
        \A a \in TextLinesOf(read, blocks[i].text), b \in TextLinesOf(read, blocks[j].text) :
            /\ RLt(blocks[i].bbox[1], blocks[j].bbox[1]) => read[a].x <= read[b].x
            /\ RLt(blocks[i].bbox[2], blocks[j].bbox[2]) => read[a].y <= read[b].y

(* C10: of two text blocks placed on the label, the one with the smaller   *)
(* document x (y) is never placed at a larger x (y) in dots.               *)
C10_MappingMonotonic ==
    op = "map_text" => MonotonicPlacement(ReadLines(out.zpl), args.analysis.text_blocks)

StrictlyOrderedPair(read, blocks) ==
    /\ Len(blocks) = 2
    /\ RLt(blocks[1].bbox[1], R(0))
    /\ RLt(blocks[1].bbox[1], blocks[2].bbox[1])
    /\ RLt(blocks[1].bbox[2], blocks[2].bbox[2])
    /\ \E a \in TextLinesOf(read, blocks[1].text), b \in TextLinesOf(read, blocks[2].text) :
        read[a].x < read[b].x /\ read[a].y < read[b].y

C10_Witness ==
    /\ op = "map_text"
    /\ StrictlyOrderedPair(ReadLines(out.zpl), args.analysis.text_blocks)

\* a document coordinate in label dots, under the call's scale factor
DotsOf(v, scale, dpi) == convert_to_zpl_units(to_points(v, scale), dpi)

\* the image's bbox in label dots: its corners mapped
ImageDots ==
    LET sc == scale_factors(args.page, args.width, args.height)
    IN  [x0 |-> DotsOf(args.image_pos.x0, sc.x, args.dpi),
         y0 |-> DotsOf(args.image_pos.y0, sc.y, args.dpi),
         x1 |-> DotsOf(args.image_pos.x1, sc.x, args.dpi),
         y1 |-> DotsOf(args.image_pos.y1, sc.y, args.dpi)]

BarcodeInsideImage ==
    /\ ImageDots.x0 <= out.dots.x_dots
    /\ out.dots.x_dots + out.dots.width_dots <= ImageDots.x1
    /\ ImageDots.y0 <= out.dots.y_dots
    /\ out.dots.y_dots + out.dots.height_dots <= ImageDots.y1
    /\ XDotsOf(out.call.zpl) = out.dots.x_dots
    /\ YDotsOf(out.call.zpl) = out.dots.y_dots

(* C9: the rectangle a decoded symbol is given in label dots lies within   *)
(* the rectangle of its image's bbox in label dots.                        *)
C9_BarcodeInsideImage ==
    op = "map_barcode" => BarcodeInsideImage

(***************************************************************************)
(* The requests: upload_pdf, analyze_pdf and scale_pdf_endpoint, each from *)
(* its content-type check to its response.                                 *)
(***************************************************************************)
MaxWords == 2
MaxImages == 2
MaxPages == 2

Word(kind, text, x0, top, fontname) ==
    [kind |-> kind, text |-> text,
     bbox |-> <<x0, top, RAdd(x0, R(30)), RAdd(top, R(12))>>,
     fontname |-> fontname, size |-> R(12)]

WordSamples ==
    {Word("ok", <<"a">>, R(10), R(20), "Helvetica"),
     Word("ok", <<"b">>, R(100), R(50), ""),
     Word("missing_key", <<"c">>, R(0), R(0), ""),
     Word("non_numeric", <<"d">>, R(0), R(0), ""),
     Word("null", <<"e">>, R(0), R(0), "")}

EmbeddedImage(extract, decode, position, symbols) ==
    [extract |-> extract, decode |-> decode, position |-> position,
     size |-> <<2, 2>>, format |-> "png", symbols |-> symbols]

ImageSamples ==
    {EmbeddedImage("ok", "none", Bbox(R(200), R(300), R(260), R(340)), <<>>),
     EmbeddedImage("ok", "symbols", Bbox(R(10), R(10), R(110), R(60)),
                   <<[type |-> T_CODE128, data |-> <<"1">>,
                      rect |-> [left |-> 0, top |-> 0, width |-> 2, height |-> 1]]>>),
     EmbeddedImage("ok", "none", None, <<>>),
     EmbeddedImage("ok", "throws", Bbox(R(300), R(400), R(360), R(440)), <<>>),
     EmbeddedImage("fails", "none", Bbox(R(400), R(500), R(460), R(540)), <<>>)}

Page(width, height, words, images) ==
    [width |-> width, height |-> height, words |-> words, images |-> images]

BlankPage == Page(R(612), R(792), <<>>, <<>>)

\* a document of n pages that both readers open: the first page has the
\* content, the others are blank
Document(words, images, n) ==
    [plumber_ok |-> TRUE, fitz_ok |-> TRUE,
     pages |-> <<Page(R(612), R(792), words, images)>>
               \o [k \in 1..(n - 1) |-> BlankPage]]

UnreadableDocument == [plumber_ok |-> FALSE, fitz_ok |-> FALSE, pages |-> <<>>]

Documents ==
    {Document(words, <<>>, n) : words \in SeqsUpTo(WordSamples, MaxWords),
                                n \in 1..MaxPages}
    \cup {Document(<<Word("ok", <<"a">>, R(10), R(20), "Helvetica")>>, images, n) :
            images \in SeqsUpTo(ImageSamples, MaxImages), n \in 1..MaxPages}
    \cup {UnreadableDocument,
          [plumber_ok |-> TRUE, fitz_ok |-> FALSE, pages |-> <<BlankPage>>],
          [plumber_ok |-> TRUE, fitz_ok |-> TRUE, pages |-> <<>>],
          [plumber_ok |-> TRUE, fitz_ok |-> TRUE,
           pages |-> <<Page(R(0), R(792), <<>>, <<>>)>>]}

\* width and height are Form(None): given or not
LabelGeometries ==
    {[given |-> TRUE, width |-> R(4), height |-> R(6), dpi |-> 203],
     [given |-> FALSE, width |-> R(0), height |-> R(0), dpi |-> 203]}

PageNums == (-(MaxPages + 1))..(MaxPages + 1)

PDF == "application/pdf"

\* the uploads a request may carry: any document as a PDF, or a file that
\* is not declared a PDF
Uploads ==
    {[content_type |-> PDF, doc |-> d] : d \in Documents}
        \cup {[content_type |-> "text/plain", doc |-> UnreadableDocument]}

XA == <<"^", "X", "A">>
XZ == <<"^", "X", "Z">>

\* base_zpl = "^XA^FS"
EMPTY_LABEL == XA \o FS

new_frame ==
    [analysis |-> page_result(empty_analysis), zpl_elements |-> <<>>,
     embedded_images |-> <<>>, base_zpl |-> <<>>, final_zpl |-> <<>>,
     assembled |-> FALSE, exc |-> NoException]

\* lines 576-586: the base stream split into lines and, when its first line
\* is ^XA, the dimension lines and the elements inserted.  width_dots and
\* height_dots are bound nowhere in upload_pdf or the module, so the branch
\* that inserts ends in NameError at its first statement.
combine_elements(base_zpl, zpl_elements) ==
    LET zpl_lines == Split(base_zpl, NEWLINE)
    IN  IF zpl_lines[1] = XA
        THEN [exc |-> "NameError", final_zpl |-> <<>>]
        ELSE [exc |-> NoException, final_zpl |-> Join(zpl_lines, NEWLINE)]

\* the first line of the handler's try block: the content-type check
StartRequest(endpoint, upload, rest) ==
    /\ pc = "idle"
    /\ op = "none"
    /\ op' = endpoint
    /\ args' = [content_type |-> upload.content_type, doc |-> upload.doc] @@ rest
    /\ frame' = IF upload.content_type = PDF THEN new_frame
                ELSE [new_frame EXCEPT !.exc = "HTTPException"]
    /\ UNCHANGED <<out, handles, dir_vars>>

UploadPdf ==
    \E upload \in Uploads, g \in LabelGeometries :
        /\ StartRequest("upload_pdf", upload, [geometry |-> g])
        /\ pc' = IF upload.content_type = PDF THEN "analyzer_init" ELSE "except"

AnalyzePdf ==
    \E upload \in Uploads, page \in PageNums :
        /\ StartRequest("analyze_pdf", upload, [page |-> page])
        /\ pc' = IF upload.content_type = PDF THEN "analyzer_init" ELSE "except"

ScalePdfEndpoint ==
    \E upload \in Uploads, g \in LabelGeometries :
        /\ StartRequest("scale_pdf", upload, [geometry |-> g])
        /\ pc' = IF upload.content_type = PDF THEN "scale_pdf" ELSE "except"

\* PDFAnalyzer.__init__: pdfplumber.open, then fitz.open
AnalyzerInit ==
    /\ pc = "analyzer_init"
    /\ IF ~args.doc.plumber_ok
       THEN /\ frame' = [frame EXCEPT !.exc = "PDFSyntaxError"]
            /\ pc' = "except"
            /\ UNCHANGED handles
       ELSE IF ~args.doc.fitz_ok
       THEN /\ handles' = [handles EXCEPT !["pdfplumber"] = "open"]
            /\ frame' = [frame EXCEPT !.exc = "FileDataError"]
            /\ pc' = "except"
       ELSE /\ handles' = [handles EXCEPT !["pdfplumber"] = "open", !["fitz"] = "open"]
            /\ pc' = "try_body"
            /\ UNCHANGED frame
    /\ UNCHANGED <<op, args, out, dir_vars>>

\* upload_pdf, lines 545-548: analyze_page(0) and generate_zpl_elements
UploadElements ==
    /\ pc = "try_body"
    /\ op = "upload_pdf"
    /\ LET analysis == analyze_page(args.doc, 0)
           exc == generate_zpl_elements_exc(args.doc, args.geometry)
           g == args.geometry
       IN  IF exc /= NoException
           THEN /\ frame' = [frame EXCEPT !.analysis = analysis, !.exc = exc]
                /\ pc' = "finally"
           ELSE LET r == generate_zpl_elements(analysis, args.doc.pages[1],
                                               g.dpi, g.width, g.height)
                IN  /\ frame' = [frame EXCEPT !.analysis = analysis,
                                              !.zpl_elements = r.zpl,
                                              !.embedded_images = r.embedded_images]
                    /\ pc' = "images"
    /\ UNCHANGED <<op, args, out, handles, dir_vars>>

\* upload_pdf, lines 550-574.  With embedded images the handler calls
\* create_image_only_pdf, whose def follows the uvicorn.run of the __main__
\* block: run as a script the name is unbound while requests are served
\* (NameError, nothing opened); imported, it opens the source and a new
\* document and closes neither, show_pdf_page may raise, and the ZebrafyPDF
\* call that follows reads width_dots, which is bound nowhere (NameError).
\* Without embedded images: base_zpl = "^XA^FS".
UploadImages ==
    /\ pc = "images"
    /\ IF frame.embedded_images /= <<>>
       THEN \E outcome \in {"helper_unbound", "show_pdf_page_raises", "width_dots_unbound"} :
                /\ handles' = IF outcome = "helper_unbound" THEN handles
                              ELSE [handles EXCEPT !["helper_doc"] = "open",
                                                   !["helper_new_doc"] = "open"]
                /\ frame' = [frame EXCEPT !.exc = IF outcome = "show_pdf_page_raises"
                                                  THEN "ValueError" ELSE "NameError"]
                /\ pc' = "finally"
       ELSE /\ frame' = [frame EXCEPT !.base_zpl = EMPTY_LABEL]
            /\ pc' = "combine"
            /\ UNCHANGED handles
    /\ UNCHANGED <<op, args, out, dir_vars>>

\* upload_pdf, lines 576-586
UploadCombine ==
    /\ pc = "combine"
    /\ LET c == combine_elements(frame.base_zpl, frame.zpl_elements)
       IN  IF c.exc /= NoException
           THEN /\ frame' = [frame EXCEPT !.exc = c.exc]
                /\ pc' = "finally"
           ELSE /\ frame' = [frame EXCEPT !.final_zpl = c.final_zpl,
                                          !.assembled = TRUE]
                /\ pc' = "preview"
    /\ UNCHANGED <<op, args, out, handles, dir_vars>>

\* upload_pdf, lines 588-591: f.write(scaled_content), and scaled_content is
\* bound nowhere in upload_pdf or the module: NameError.  The return of
\* lines 600-611 is never reached.
UploadPreview ==
    /\ pc = "preview"
    /\ frame' = [frame EXCEPT !.exc = "NameError"]
    /\ pc' = "finally"
    /\ UNCHANGED <<op, args, out, handles, dir_vars>>

\* analyze_pdf, lines 840-847
AnalyzeBody ==
    /\ pc = "try_body"
    /\ op = "analyze_pdf"
    /\ frame' = [frame EXCEPT !.analysis = analyze_page(args.doc, args.page)]
    /\ pc' = "finally"
    /\ UNCHANGED <<op, args, out, handles, dir_vars>>

\* finally: analyzer.close(), that is self.pdf.close() and then
\* self.doc.close(); when the first raises the second is not called
AnalyzerClose ==
    /\ pc = "finally"
    /\ \E pdf_close_raises \in BOOLEAN :
        IF pdf_close_raises
        THEN /\ frame' = [frame EXCEPT !.exc = "CloseError"]
             /\ pc' = "except"
             /\ UNCHANGED handles
        ELSE /\ handles' = [handles EXCEPT !["pdfplumber"] = "closed",
                                           !["fitz"] = "closed"]
             /\ pc' = IF frame.exc /= NoException THEN "except" ELSE "return"
             /\ UNCHANGED frame
    /\ UNCHANGED <<op, args, out, dir_vars>>

\* scale_pdf (lines 620-667) as scale_pdf_endpoint calls it: it opens the
\* source and a new document and closes neither; every exception is caught
\* and the content returned as it is
ScalePdf ==
    /\ pc = "scale_pdf"
    /\ handles' =
        IF ~args.geometry.given \/ ~args.doc.fitz_ok THEN handles
        ELSE IF Len(args.doc.pages) = 0
        THEN [handles EXCEPT !["helper_doc"] = "open"]
        ELSE [handles EXCEPT !["helper_doc"] = "open", !["helper_new_doc"] = "open"]
    /\ pc' = "return"
    /\ UNCHANGED <<op, args, out, frame, dir_vars>>

\* except Exception: raise HTTPException(status_code=500, detail=str(e))
RaiseHttp500 ==
    /\ pc = "except"
    /\ out' = [status |-> 500, detail |-> frame.exc, content |-> frame.analysis]
    /\ pc' = "done"
    /\ UNCHANGED <<op, args, handles, frame, dir_vars>>

\* the handler returns its response
ReturnResponse ==
    /\ pc = "return"
    /\ out' = [status |-> 200, detail |-> NoException, content |-> frame.analysis]
    /\ pc' = "done"
    /\ UNCHANGED <<op, args, handles, frame, dir_vars>>

Init == InitCall

Next ==
    \/ UploadPdf
    \/ AnalyzePdf
    \/ ScalePdfEndpoint
    \/ AnalyzerInit
    \/ UploadElements
    \/ UploadImages
    \/ UploadCombine
    \/ UploadPreview
    \/ AnalyzeBody
    \/ AnalyzerClose
    \/ ScalePdf
    \/ RaiseHttp500
    \/ ReturnResponse

Spec == Init /\ [][Next]_vars

(***************************************************************************)
(* Properties of the requests.                                             *)
(***************************************************************************)
Returned == pc = "done"

\* C1: by the time a request returns, on every exit path, every document
\* handle opened during it (the analyzer's pdfplumber and fitz handles and
\* the fitz documents of create_image_only_pdf and scale_pdf) is closed.
C1_HandlesClosedOnReturn ==
    Returned => \A h \in HandleNames : handles[h] /= "open"

\* the lines of a command stream in the order start marker, ^PW, ^LL, ^LS0,
\* the text and barcode lines, then the rasterizer's lines up to the end
\* marker as the last line
StreamInOrder(final_zpl, zpl_elements) ==
    LET lines == Split(final_zpl, NEWLINE)
        elements == IF zpl_elements = <<>> THEN <<>> ELSE Split(zpl_elements, NEWLINE)
        n == Len(elements)
    IN  /\ Len(lines) >= 5 + n
        /\ lines[1] = XA
        /\ IsPrefix(<<"^", "P", "W">>, lines[2])
        /\ IsPrefix(<<"^", "L", "L">>, lines[3])
        /\ \A k \in 1..n : lines[4 + k] = elements[k]
        /\ lines[Len(lines)] = XZ

\* C2: the command stream upload_pdf assembles for its response (final_zpl,
\* line 586) is, in order, ^XA, the dimension lines, the text and barcode
\* lines, the image lines and ^XZ, also for a page without plain images.
C2_AssembledStreamInOrder ==
    (op = "upload_pdf" /\ frame.assembled)
        => StreamInOrder(frame.final_zpl, frame.zpl_elements)

OutOfRange == args.page \notin 0..(Len(args.doc.pages) - 1)

\* C3: analyze_page on a page number outside the document's page range (or
\* on an unparsable document) is fatal: the caller of analyze_pdf never
\* receives a success result for it.
C3_OutOfRangePageIsFatal ==
    (Returned /\ op = "analyze_pdf" /\ (OutOfRange \/ ~args.doc.plumber_ok))
        => out.status /= 200

\* C11: a page of width or height <= 0 never ends upload_pdf in a division
\* fault: no ZeroDivisionError reaches the caller of generate_zpl_elements.
C11_NoDivisionFault ==
    (Returned /\ op = "upload_pdf") => out.detail /= "ZeroDivisionError"

\* create_image_only_pdf raised: the ValueError of show_pdf_page is the only
\* ValueError a request can end with
ExportFailed == frame.exc = "ValueError"

\* C12: when create_image_only_pdf raises, upload_pdf still completes: the
\* stream is assembled and the response is a success.
C12_ExportFailureDegrades ==
    (Returned /\ op = "upload_pdf" /\ ExportFailed)
        => (out.status = 200 /\ frame.assembled)

(***************************************************************************)
(* Properties of generate_barcode: linear height, the QR type.             *)
(***************************************************************************)
\* a length in points as whole device dots: points / 72 * dpi, the fraction
\* dropped
DeviceDots(v, dpi) ==
    LET num == v.n * dpi
        den == v.d * 72
    IN  IF num >= 0 THEN num \div den ELSE -((-num) \div den)

\* C13: the height generate_barcode writes in a linear (non-QR) command is
\* min(device height in dots, 400), so it never exceeds 400.
C13_LinearHeightClamped ==
    (op = "generate_barcode" /\ ~IsQrCommand(out)) =>
        LET f == HeaderFields(out)
        IN  /\ Len(f) = 6
            /\ IsIntStr(f[3])
            /\ StrToInt(f[3]) = IMin(DeviceDots(args.height, args.dpi), 400)
            /\ StrToInt(f[3]) <= 400

C13_Witness ==
    /\ op = "generate_barcode"
    /\ ~IsQrCommand(out)
    /\ args.height = R(500)
    /\ args.dpi = 203
    /\ HeaderFields(out)[3] = <<"4", "0", "0">>

\* the integers nearest to w / q
NearestIntegers(w, q) ==
    {m \in ((w \div q) - 1)..((w \div q) + 1) : 2 * Abs(q * m - w) <= q}

Clamp(m, lo, hi) == IMax(lo, IMin(hi, m))

\* C14: for the type "QR" in any letter case generate_barcode writes the QR
\* selector ^BQ with magnification clamp(round(width_dots / 100), 1, 10).
C14_QrTypeSelectsQr ==
    (op = "generate_barcode" /\ Upper(args.barcode_type) = <<"Q", "R">>) =>
        /\ IsQrCommand(out)
        /\ \E m \in NearestIntegers(DeviceDots(args.width, args.dpi), 100) :
                StrToInt(HeaderFields(out)[3]) = Clamp(m, 1, 10)

(***************************************************************************)
(* Properties of generate_zpl_elements: font scale, occlusion space.       *)
(***************************************************************************)
\* the page-to-label scale in points per point: label inches * 72 / page
\* points
PointScale ==
    [x |-> RDiv(RMul(args.width, R(72)), args.page.width),
     y |-> RDiv(RMul(args.height, R(72)), args.page.height)]

\* clamp(round(font_size_pt * min(scale_x, scale_y) * 1.2), 9, 120), for
\* each way of rounding a tie
ScaledFontHeights(block) ==
    LET v == RMul(RMul(block.size, RMin(PointScale.x, PointScale.y)), Rat(12, 10))
    IN  {Clamp(m, 9, 120) : m \in NearestIntegers(v.n, v.d)}

FontHeightOf(line) == StrToInt(HeaderFields(line)[3])

FontHeightsScaled(lines, blocks) ==
    \A k \in 1..Len(blocks), l \in 1..Len(lines) :
        (IsTextCommand(lines[l]) /\ FieldDataOf(lines[l]) = blocks[k].text)
            => FontHeightOf(lines[l]) \in ScaledFontHeights(blocks[k])

\* C15: the font height of every text command generate_zpl_elements emits is
\* clamp(round(font_size_pt * min(scale_x, scale_y) * 1.2), 9, 120) with
\* scale_x = label_width_in * 72 / page_width_pt and scale_y likewise.
C15_FontScaledByMinScale ==
    op = "map_text" => FontHeightsScaled(LinesOf(out.zpl), args.analysis.text_blocks)

\* the block's origin in document space lies inside or on some barcode bbox
DocumentOccluded(block, barcodes) ==
    \E b \in 1..Len(barcodes) :
        OnOrInside(<<block.bbox[1], block.bbox[2]>>, barcodes[b].position)

DroppedIffDocumentOccluded(read, blocks, barcodes) ==
    \A k \in 1..Len(blocks) :
        (TextLinesOf(read, blocks[k].text) = {}) <=> DocumentOccluded(blocks[k], barcodes)

\* C20: at every page/label scale a text block is dropped if and only if
\* its document-space origin lies within some barcode's document-space bbox.
C20_OcclusionInOneSpace ==
    op = "map_text" =>
        DroppedIffDocumentOccluded(ReadLines(out.zpl), args.analysis.text_blocks,
                                   args.analysis.barcodes)

(***************************************************************************)
(* Properties of analyze_page as analyze_pdf returns it, and of the        *)
(* elements in the stream upload_pdf assembles.                            *)
(***************************************************************************)
\* analyze_pdf answered 200 for a page of the document
AnalyzedPage == Returned /\ op = "analyze_pdf" /\ out.status = 200 /\ ~OutOfRange

RequestedPage == args.doc.pages[args.page + 1]

PageAborted(result) ==
    \E e \in 1..Len(result.errors) : result.errors[e] = "Error analyzing page"

ListedAsImage(result, img_index) ==
    \E e \in 1..Len(result.images) : result.images[e].index = img_index

\* C16: an embedded image with a bbox in which no symbol decodes, or whose
\* decode call throws, is in the images list of the result.
C16_DecodeFailureIsPlainImage ==
    (AnalyzedPage /\ ~PageAborted(out.content)) =>
        \A i \in 1..Len(RequestedPage.images) :
            LET img == RequestedPage.images[i]
            IN  (img.position /= None /\ (img.symbols = <<>> \/ img.decode = "throws"))
                    => ListedAsImage(out.content, i - 1)

\* C17: one malformed text run or one image that cannot be extracted does
\* not end the page: every well-formed text run is in text_blocks and every
\* plain image with a bbox is in images.
C17_BadElementSkipped ==
    AnalyzedPage =>
        /\ \A k \in 1..Len(RequestedPage.words) :
                RequestedPage.words[k].kind = "ok" =>
                    \E b \in 1..Len(out.content.text_blocks) :
                        out.content.text_blocks[b].text = RequestedPage.words[k].text
        /\ \A i \in 1..Len(RequestedPage.images) :
                LET img == RequestedPage.images[i]
                IN  (img.extract = "ok" /\ img.decode /= "throws"
                        /\ img.symbols = <<>> /\ img.position /= None)
                        => ListedAsImage(out.content, i - 1)

\* the lines of the stream that are element lines, in stream order, are the
\* element lines in the order generate_zpl_elements returned them
ElementsOnceInOrder(lines, elements) ==
    SelectSeq(lines, LAMBDA l : \E k \in 1..Len(elements) : elements[k] = l) = elements

\* C19: every text/barcode line generate_zpl_elements returned is in the
\* stream upload_pdf assembles exactly once, in the order generated.
C19_ElementsOnceInOrder ==
    (op = "upload_pdf" /\ frame.assembled) =>
        ElementsOnceInOrder(Split(frame.final_zpl, NEWLINE),
                            IF frame.zpl_elements = <<>> THEN <<>>
                            ELSE Split(frame.zpl_elements, NEWLINE))

(***************************************************************************)
(* cleanup_old_files(TEMP_DIR) called by several requests at once (several *)
(* workers share the directory), while requests write scaled files.  Each  *)
(* file-system call is one step: datetime.now(), os.listdir, os.path.      *)
(* getctime with the age test, os.unlink.  A file is named after the time  *)
(* it is written at (scaled_<timestamp>.pdf).                              *)
(***************************************************************************)
max_age_seconds == 3600

MaxTicks == 2

\* the scaled files of requests that the directory holds at a time
MaxWrites == 1

\* the clock advances half of max_age_seconds at a time
TickSeconds == max_age_seconds \div 2

StoredFile(ctime, deletable) ==
    [name |-> ctime, ctime |-> ctime, deletable |-> deletable]

\* what the directory holds at clock 0: a file older than max_age_seconds,
\* one older that may not be unlinked, one exactly max_age_seconds old, a
\* young one
InitialFiles ==
    {StoredFile(-4000, TRUE), StoredFile(-3900, FALSE),
     StoredFile(-max_age_seconds, TRUE), StoredFile(-1, TRUE)}

Names(dir) == {f.name : f \in dir}

FileNamed(dir, name) == CHOOSE f \in dir : f.name = name

RECURSIVE Ascending(_)
Ascending(S) ==
    IF S = {} THEN <<>>
    ELSE LET m == CHOOSE x \in S : \A y \in S : x <= y
         IN  <<m>> \o Ascending(S \ {m})

Reverse(seq) == [k \in 1..Len(seq) |-> seq[Len(seq) + 1 - k]]

\* os.listdir(directory): the names, in an order the file system chooses
listdir(dir) == {Ascending(Names(dir)), Reverse(Ascending(Names(dir)))}

\* current_time - os.path.getctime(filepath) > max_age_seconds
is_old(current_time, ctime) == current_time - ctime > max_age_seconds

\* the exception of getctime or unlink leaves the for loop and the function
except_propagates(sweep) ==
    [sweep EXCEPT !.listing = <<>>, !.raised = TRUE, !.pc = "loop"]

\* except: pass, and the for loop goes on with the next filename
except_pass(sweep) ==
    [sweep EXCEPT !.listing = Tail(@), !.swallowed = @ + 1, !.pc = "loop"]

InitSweep ==
    /\ op = "none" /\ args = <<>> /\ out = <<>> /\ Idle
    /\ clock = 0
    /\ temp_dir = InitialFiles
    /\ NoSweep

Tick ==
    /\ clock < MaxTicks * TickSeconds
    /\ clock' = clock + TickSeconds
    /\ UNCHANGED <<temp_dir, sweeps, unlinked, request_vars>>

\* scale_pdf_endpoint, lines 797-804: the scaled file written under a name
\* made of the current time
WriteScaledFile ==
    /\ clock \notin Names(temp_dir)
    /\ Cardinality({f \in temp_dir : f.ctime >= 0}) < MaxWrites
    /\ temp_dir' = temp_dir \cup {StoredFile(clock, TRUE)}
    /\ UNCHANGED <<clock, sweeps, unlinked, request_vars>>

\* current_time = datetime.now().timestamp()
SweepStart(s) ==
    /\ sweeps[s].pc = "idle"
    /\ sweeps' = [sweeps EXCEPT ![s] =
            [@ EXCEPT !.pc = "started", !.current_time = clock,
                      !.old_at_start =
                          {f.name : f \in {g \in temp_dir :
                                g.deletable /\ clock - g.ctime > max_age_seconds}}]]
    /\ UNCHANGED <<clock, temp_dir, unlinked, request_vars>>

\* for filename in os.listdir(directory)
SweepList(s) ==
    /\ sweeps[s].pc = "started"
    /\ \E listing \in listdir(temp_dir) :
        sweeps' = [sweeps EXCEPT ![s] = [@ EXCEPT !.pc = "loop", !.listing = listing]]
    /\ UNCHANGED <<clock, temp_dir, unlinked, request_vars>>

\* the if of the loop body: getctime raises for a file that is gone
SweepExamine(s) ==
    /\ sweeps[s].pc = "loop"
    /\ sweeps[s].listing /= <<>>
    /\ LET filename == Head(sweeps[s].listing)
       IN  sweeps' = [sweeps EXCEPT ![s] =
                IF filename \notin Names(temp_dir) THEN except_pass(@)
                ELSE IF is_old(@.current_time, FileNamed(temp_dir, filename).ctime)
                THEN [@ EXCEPT !.pc = "unlink"]
                ELSE [@ EXCEPT !.listing = Tail(@)]]
    /\ UNCHANGED <<clock, temp_dir, unlinked, request_vars>>

\* os.unlink(filepath): it raises for a file that is gone or may not be
\* unlinked
SweepUnlink(s) ==
    /\ sweeps[s].pc = "unlink"
    /\ LET filename == Head(sweeps[s].listing)
       IN  IF filename \in Names(temp_dir) /\ FileNamed(temp_dir, filename).deletable
           THEN /\ temp_dir' = temp_dir \ {FileNamed(temp_dir, filename)}
                /\ unlinked' = unlinked \cup
                        {[name |-> filename,
                          age |-> clock - FileNamed(temp_dir, filename).ctime]}
                /\ sweeps' = [sweeps EXCEPT ![s] =
                        [@ EXCEPT !.listing = Tail(@), !.pc = "loop"]]
           ELSE /\ sweeps' = [sweeps EXCEPT ![s] = except_pass(@)]
                /\ UNCHANGED <<temp_dir, unlinked>>
    /\ UNCHANGED <<clock, request_vars>>

\* the for loop is over and cleanup_old_files returns
SweepReturn(s) ==
    /\ sweeps[s].pc = "loop"
    /\ sweeps[s].listing = <<>>
    /\ sweeps' = [sweeps EXCEPT ![s] = [@ EXCEPT !.pc = "done"]]
    /\ UNCHANGED <<clock, temp_dir, unlinked, request_vars>>

NextSweep ==
    \/ Tick
    \/ WriteScaledFile
    \/ \E s \in Sweepers : SweepStart(s)
    \/ \E s \in Sweepers : SweepList(s)
    \/ \E s \in Sweepers : SweepExamine(s)
    \/ \E s \in Sweepers : SweepUnlink(s)
    \/ \E s \in Sweepers : SweepReturn(s)

SpecSweep == InitSweep /\ [][NextSweep]_vars

AllSweepsDone == \A s \in Sweepers : sweeps[s].pc = "done"

\* C18: concurrent sweeps and file-writing requests, in any interleaving: no
\* sweep surfaces a per-file failure; once all sweeps are done, every file
\* that was older than max_age_seconds and deletable when a sweep started is
\* gone; no file was unlinked at an age of max_age_seconds or less.
C18_SweepsIndependent ==
    /\ \A s \in Sweepers : ~sweeps[s].raised
    /\ AllSweepsDone =>
            \A s \in Sweepers : sweeps[s].old_at_start \cap Names(temp_dir) = {}
    /\ \A u \in unlinked : u.age > max_age_seconds

\* both sweeps done, each started while an old deletable file was there, one
\* of them having swallowed two failures (the file that may not be unlinked
\* and a file the other sweep unlinked first), an old file unlinked and a
\* file written meanwhile still there
C18_Witness ==
    /\ AllSweepsDone
    /\ \A s \in Sweepers : sweeps[s].old_at_start /= {}
    /\ \E s \in Sweepers : sweeps[s].swallowed >= 2
    /\ unlinked /= {}
    /\ \E f \in temp_dir : f.ctime >= 0

====
